---- MODULE Spec2Model ----
(***************************************************************************)
(* Cluster-wide sliding-window rate limiter backed by a Redis ring         *)
(* (src/ratelimit/redis.go).  Every Redis round trip of a call is one      *)
(* atomic step; callers interleave between round trips.  Time is counted   *)
(* in ticks (the scaled nanosecond), Second ticks make one second.         *)
(***************************************************************************)
EXTENDS Integers, Sequences, FiniteSets, Bags, TLC

VARIABLES clock, bucket, expireAt, call, counters, ncalls, admitted, faults, limiter,
          ring, ctor

vars == <<clock, bucket, expireAt, call, counters, ncalls, admitted, faults, limiter,
          ring, ctor>>

(***************************************************************************)
(* Bounds and scaled widths                                                *)
(***************************************************************************)
\* ticks in one second (time.Second, scaled)
Second == 2
\* the limiters' window, in ticks (Settings.TimeWindow)
WindowTicks == 3
\* Settings.MaxHits of the limiter of group "" and of group "g"
MaxHitsUngrouped == 1
MaxHitsGrouped == 2
\* the wall clock at the start, and how far it advances
StartClock == 16
Horizon == 5
\* calls started and round trips that fail in one run of Spec, SeqSpec, WideSpec
MaxCalls == 2
MaxFaults == 1
SeqMaxCalls == 3
\* calls started in one run of RaceSpec, in which no round trip fails
RaceMaxCalls == 3
\* calls started in one run of ReadOnlySpec
ReadOnlyMaxCalls == 3
\* calls started in one run of RetrySpec, in which no round trip fails
RetryMaxCalls == 5
\* calls started in one run of RingSpec, and the rounds of gauges counted
RingMaxCalls == 1
\* line 152: backoff.WithMaxRetries(..., 7)
MaxRetries == 7
MaxPublishes == 2
SeqMaxFaults == 1
WideMaxCalls == 2
WideMaxFaults == 3
\* width of the significand of a score (float64: 53), scaled
MantissaBits == 4
\* width of a Duration / UnixNano integer (int64: 64), scaled
DurBits == 8

Procs == {"p1", "p2"}
\* the limiters and client keys, and the reading operations, of Spec and SeqSpec
ConcTargets == {<<"", "a">>, <<"g", "a">>}
ConcOps == {"RetryAfter"}
SeqTargets == {<<"", "a">>, <<"g", "a">>}
SeqOps == {"RetryAfter"}
\* the limiter and client key of ReadOnlySpec
ReadOnlyTargets == {<<"g", "a">>}
Groups == {"", "g"}
ClientKeys == {"a", "b"}

(***************************************************************************)
(* Integer and floating point arithmetic as Go computes it                 *)
(***************************************************************************)
RECURSIVE Pow2(_)
Pow2(n) == IF n <= 0 THEN 1 ELSE 2 * Pow2(n - 1)

MaxDuration == Pow2(DurBits - 1) - 1
MinDuration == -Pow2(DurBits - 1)

\* two's complement wrap-around of int64 arithmetic
Wrap(x) == ((x + Pow2(DurBits - 1)) % Pow2(DurBits)) - Pow2(DurBits - 1)

\* Go's integer division truncates toward zero
Quot(a, b) == IF a >= 0 THEN a \div b ELSE -((-a) \div b)

\* the zero time.Time (year 1): further from any clock value than a Duration spans
ZeroTime == -3 * Pow2(DurBits)

\* a variant that wraps instead of saturating
TimeSubWrapping(t, u) == Wrap(t - u)

\* time.Time.Sub saturates at the largest and smallest Duration
TimeSub(t, u) ==
    LET d == t - u
    IN  IF d > MaxDuration THEN MaxDuration
        ELSE IF d < MinDuration THEN MinDuration
        ELSE d

RECURSIVE Log2(_)
Log2(n) == IF n < 2 THEN 0 ELSE 1 + Log2(n \div 2)

\* float64(n) for n >= 0: round to nearest, ties to even, on a significand of
\* MantissaBits bits
F64Abs(n) ==
    IF n < Pow2(MantissaBits) THEN n
    ELSE LET ulp == Pow2(Log2(n) - MantissaBits + 1)
             lo  == n - (n % ulp)
             hi  == lo + ulp
         IN  IF n - lo < hi - n THEN lo
             ELSE IF hi - n < n - lo THEN hi
             ELSE IF (lo \div ulp) % 2 = 0 THEN lo ELSE hi

\* float64(nowNanos), float64(clearBefore), float64(now.UnixNano())
F64(n) == IF n < 0 THEN -F64Abs(-n) ELSE F64Abs(n)

(***************************************************************************)
(* Limiter configuration and Redis keys                                    *)
(***************************************************************************)
\* clusterLimitRedis.maxHits and .window of the limiter of group g, as
\* newClusterRateLimiterRedis set them from the Settings
maxHits(g) == limiter[g].maxHits
window(g) == limiter[g].window

\* the Settings of a limiter: MaxHits and TimeWindow
Settings(hits, w) == [maxHits |-> hits, window |-> w]

\* the fixed digest of a client key
getHashedKey(clearText) == IF clearText = "a" THEN "1f" ELSE "2e"

swarmKeyFormat(group, s) == "ratelimit-" \o group \o "-" \o s

\* a variant that leaves the group out of the key
prefixKeyNoGroup(group, clearText) == swarmKeyFormat("", clearText)

prefixKey(group, clearText) == swarmKeyFormat(group, clearText)

\* the key AllowContext and oldest address
RedisKey(g, k) == prefixKey(g, getHashedKey(k))

RedisKeys == {RedisKey(g, k) : g \in Groups, k \in ClientKeys}

NoTTL == -1

(***************************************************************************)
(* The sorted set operations of the ring                                   *)
(***************************************************************************)
\* a variant that keeps only the new member
ZAddReplacing(set, member, score) == {[member |-> member, score |-> score]}

\* ZADD: a member already present gets the new score
ZAdd(set, member, score) ==
    {e \in set : e.member # member} \cup {[member |-> member, score |-> score]}

\* a variant that keeps the entries whose score equals max
ZRemRangeByScoreOpen(set, min, max) ==
    {e \in set : ~(min <= e.score /\ e.score < max)}

\* ZREMRANGEBYSCORE min max: the closed range of scores is removed
ZRemRangeByScore(set, min, max) ==
    {e \in set : ~(min <= e.score /\ e.score <= max)}

\* a variant that misses one entry
ZCardOneShort(set) == IF set = {} THEN 0 ELSE Cardinality(set) - 1

ZCard(set) == Cardinality(set)

\* the member as the client writes it: nowNanos in decimal, a string of digits
RECURSIVE FormatInt(_)
FormatInt(n) == IF n < 10 THEN <<n>> ELSE Append(FormatInt(n \div 10), n % 10)

\* strconv.ParseInt(s, 10, 64) of a string of digits
RECURSIVE ParseInt(_)
ParseInt(s) ==
    IF Len(s) = 0 THEN 0 ELSE 10 * ParseInt(SubSeq(s, 1, Len(s) - 1)) + s[Len(s)]

\* byte-wise order of two strings of digits (the order of members of equal score)
LexLess(da, db) ==
    LET m  == IF Len(da) < Len(db) THEN Len(da) ELSE Len(db)
    IN  \/ \E i \in 1..m : /\ da[i] < db[i]
                           /\ \A j \in 1..(i - 1) : da[j] = db[j]
        \/ /\ Len(da) < Len(db)
           /\ \A j \in 1..m : da[j] = db[j]

\* the sorted set's order: by score, then by member
ZLess(e, f) ==
    \/ e.score < f.score
    \/ e.score = f.score /\ LexLess(e.member, f.member)

\* ZRANGEBYSCORE min max WITHSCORES LIMIT 0 1
ZRangeByScoreFirst(set, min, max) ==
    LET in == {e \in set : min <= e.score /\ e.score <= max}
    IN  IF in = {} THEN <<>>
        ELSE <<CHOOSE e \in in : \A f \in in \ {e} : ZLess(e, f)>>
(***************************************************************************)
(* Metrics: counters and measureSince timers by name                       *)
(***************************************************************************)
redisMetricsPrefix == "swarm.redis."
allowMetricsFormat(result) == redisMetricsPrefix \o "query.allow." \o result
retryAfterMetricsFormat(result) == redisMetricsPrefix \o "query.retryafter." \o result
allowMetricsFormatWithGroup(result, group) ==
    redisMetricsPrefix \o "query.allow." \o result \o "." \o group
retryAfterMetricsFormatWithGroup(result, group) ==
    redisMetricsPrefix \o "query.retryafter." \o result \o "." \o group

CounterNames == {redisMetricsPrefix \o n : n \in {"total", "allows", "forbids"}}

\* a variant that never reports a failure
QueryLabelSuccess(fail) == "success"

\* the label measureQuery reads from the call's queryFailure flag
QueryLabel(fail) == IF fail THEN "failure" ELSE "success"

\* a variant that never appends the group
measureQueryNoGroup(kind, g, fail) ==
    IF kind = "allow" THEN allowMetricsFormat(QueryLabel(fail))
    ELSE retryAfterMetricsFormat(QueryLabel(fail))

\* the timer name measureQuery builds for an Allow (kind "allow") or a
\* RetryAfter (kind "retryafter") call of the limiter of group g
measureQuery(kind, g, fail) ==
    IF g = ""
    THEN IF kind = "allow" THEN allowMetricsFormat(QueryLabel(fail))
         ELSE retryAfterMetricsFormat(QueryLabel(fail))
    ELSE IF kind = "allow" THEN allowMetricsFormatWithGroup(QueryLabel(fail), g)
         ELSE retryAfterMetricsFormatWithGroup(QueryLabel(fail), g)

(***************************************************************************)
(* The frame of a call                                                     *)
(***************************************************************************)
\* op: the public operation; pc: the round trip the call issues next;
\* now: time.Now() at the start of the call (from, for RetryAfter and Delta);
\* now2: time.Now() of oldest; queryFailure and err: the locals of that name;
\* prune, card, zadd, expire, query: how the op of that name ended
\* ("none": not issued); retBool, retInt: what the call returned;
\* timer: the name of the timer it emitted through MeasureSince, label: the
\* label in that name; nTotal, nAllows, nForbids, nTimer: the IncCounter and
\* MeasureSince calls it made.
\* what a caller's earlier calls on a limiter's key came to: "denied" at the
\* instant of an AllowContext that returned false, "retry" at the instant a
\* RetryAfterContext, called at the instant of that denial, told to wait for
NoHistory ==
    [q \in Groups \X ClientKeys |-> [stage |-> "none", at |-> 0]]

IdleFrame ==
    [op |-> "none", pc |-> "idle", g |-> "", k |-> "a", now |-> 0, now2 |-> 0,
     count |-> 0, queryFailure |-> FALSE,
     prune |-> "none", card |-> "none", zadd |-> "none", expire |-> "none",
     query |-> "none", oldest |-> "none", oldestAt |-> 0,
     retBool |-> FALSE, retInt |-> 0, label |-> "none", timer |-> "none",
     nTotal |-> 0, nAllows |-> 0, nForbids |-> 0, nTimer |-> 0,
     hist |-> NoHistory]

Key(p) == RedisKey(call[p].g, call[p].k)

Outcome(ok) == IF ok THEN "ok" ELSE "err"

\* the shared ring and its background worker (newRing): closed: the ring is
\* closed; quit: the shutdown signal is raised; worker: where the worker
\* goroutine is ("select": at its select, "stats": in the branch of the
\* metrics interval, "done": returned); published: the rounds of pool gauges
\* it has published; closes: the calls of ring.Close made
RingUp ==
    [closed |-> FALSE, quit |-> FALSE, worker |-> "select", published |-> 0,
     closes |-> 0]

\* newClusterRateLimiterRedis: pc: "idle" before the call, "ping" while it
\* probes the ring, "done" once it returned; rNil: its argument r is nil;
\* tries: the Ping attempts made; pinged: the last Ping succeeded; made: it
\* returned a limiter (FALSE: it returned nil)
NoCtor ==
    [pc |-> "idle", rNil |-> FALSE, tries |-> 0, pinged |-> FALSE, made |-> FALSE]

\* the state once the limiters are constructed, all but their Settings
InitState ==
    /\ ring = RingUp
    /\ ctor = NoCtor
    /\ clock = StartClock
    /\ bucket = [key \in RedisKeys |-> {}]
    /\ expireAt = [key \in RedisKeys |-> NoTTL]
    /\ call = [p \in Procs |-> IdleFrame]
    /\ counters = [n \in CounterNames |-> 0]
    /\ ncalls = 0
    /\ admitted = [key \in RedisKeys |-> EmptyBag]
    /\ faults = 0

Init ==
    /\ InitState
    /\ limiter = [g \in Groups |->
                    Settings(IF g = "" THEN MaxHitsUngrouped ELSE MaxHitsGrouped,
                             WindowTicks)]

(***************************************************************************)
(* Time: the wall clock advances; a key whose TTL has run out is deleted   *)
(***************************************************************************)
Expired(key, t) == expireAt[key] # NoTTL /\ expireAt[key] <= t

Tick ==
    /\ clock < StartClock + Horizon
    /\ clock' = clock + 1
    /\ bucket' = [key \in RedisKeys |->
                    IF Expired(key, clock + 1) THEN {} ELSE bucket[key]]
    /\ expireAt' = [key \in RedisKeys |->
                    IF Expired(key, clock + 1) THEN NoTTL ELSE expireAt[key]]
    /\ UNCHANGED <<call, counters, ncalls, admitted, faults, limiter, ring, ctor>>

(***************************************************************************)
(* AllowContext                                                            *)
(***************************************************************************)
IncCounter(name) == [counters EXCEPT ![redisMetricsPrefix \o name] = @ + 1]

\* the return of AllowContext: the result, and the deferred measureQuery
AllowReturn(f, result) ==
    [f EXCEPT !.pc = "idle", !.retBool = result,
              !.label = QueryLabel(f.queryFailure),
              !.timer = measureQuery("allow", f.g, f.queryFailure),
              !.nTimer = @ + 1]

\* the instants of the admitted calls on each key: what the run has been, for
\* the properties that speak of it
Admit(f) == [admitted EXCEPT ![RedisKey(f.g, f.k)] = @ (+) SetToBag({f.now})]

\* a round trip succeeds or fails with a transport error; the failures of a
\* run on an open ring are counted and bounded; on a closed ring every round
\* trip fails
Outcomes(maxFaults) ==
    IF ring.closed THEN {FALSE}
    ELSE IF faults < maxFaults THEN BOOLEAN ELSE {TRUE}

Fault(ok) == IF ok \/ ring.closed THEN faults ELSE faults + 1

\* lines 223-233: count the call, read the clock
\* the history of a caller once its call of frame prev has returned: a call on
\* another key leaves a key's history as it was
History(prev) ==
    [q \in Groups \X ClientKeys |->
        IF prev.op = "none" \/ <<prev.g, prev.k>> # q
          THEN prev.hist[q]
        ELSE IF prev.op = "Allow" /\ ~prev.retBool
          THEN [stage |-> "denied", at |-> prev.now]
        ELSE IF /\ prev.op = "RetryAfter" /\ ~prev.queryFailure
                /\ prev.hist[q].stage = "denied" /\ prev.hist[q].at = prev.now
          THEN [stage |-> "retry", at |-> prev.now + prev.retInt * Second]
        ELSE [stage |-> "none", at |-> 0]]

AllowStart(p, g, k, cap) ==
    /\ call[p].pc = "idle"
    /\ ncalls < cap
    /\ ncalls' = ncalls + 1
    /\ counters' = IncCounter("total")
    /\ call' = [call EXCEPT ![p] =
                    [IdleFrame EXCEPT !.op = "Allow", !.pc = "prune", !.g = g,
                                      !.k = k, !.now = clock, !.nTotal = 1,
                                      !.hist = History(call[p])]]
    /\ UNCHANGED <<clock, bucket, expireAt, admitted, faults, limiter, ring, ctor>>

\* a variant that keeps two windows
ClearBeforeTwoWindows(f) == Wrap(f.now - 2 * window(f.g))

\* now.Add(-c.window).UnixNano()
ClearBefore(f) == Wrap(f.now - window(f.g))

\* allowCheckCard, first round trip: drop the entries older than the window.
\* A sorted set left empty is deleted with its TTL.  An error ends
\* allowCheckCard, and AllowContext goes on to ZAdd.
AllowPrune(p, maxFaults) ==
    /\ call[p].pc = "prune"
    /\ \E ok \in Outcomes(maxFaults) :
         LET left == ZRemRangeByScore(bucket[Key(p)], 0, F64(ClearBefore(call[p])))
         IN  /\ bucket' = IF ok THEN [bucket EXCEPT ![Key(p)] = left] ELSE bucket
             /\ expireAt' = IF ok /\ left = {}
                            THEN [expireAt EXCEPT ![Key(p)] = NoTTL]
                            ELSE expireAt
             /\ call' = [call EXCEPT ![p].prune = Outcome(ok),
                                     ![p].pc = IF ok THEN "card" ELSE "zadd",
                                     ![p].queryFailure = ~ok]
             /\ faults' = Fault(ok)
    /\ UNCHANGED <<clock, counters, ncalls, admitted, limiter, ring, ctor>>

\* a variant that denies only above maxHits
ForbiddenAbove(count, g) == count > maxHits(g)

\* the decision of lines 244-248 on the count allowCheckCard returned
Forbidden(count, g) == count >= maxHits(g)

\* allowCheckCard, second round trip, and the decision: deny, or go on to ZAdd
AllowCard(p, maxFaults) ==
    /\ call[p].pc = "card"
    /\ \E ok \in Outcomes(maxFaults) :
         LET count == ZCard(bucket[Key(p)])
         IN  /\ IF ok /\ Forbidden(count, call[p].g)
                THEN /\ call' = [call EXCEPT ![p] =
                            AllowReturn([call[p] EXCEPT !.card = "ok", !.count = count,
                                                        !.nForbids = @ + 1], FALSE)]
                     /\ counters' = IncCounter("forbids")
                ELSE /\ call' = [call EXCEPT ![p].card = Outcome(ok), ![p].pc = "zadd",
                                             ![p].count = IF ok THEN count ELSE 0,
                                             ![p].queryFailure = @ \/ ~ok]
                     /\ UNCHANGED counters
             /\ faults' = Fault(ok)
    /\ UNCHANGED <<clock, bucket, expireAt, ncalls, admitted, limiter, ring, ctor>>

\* a variant that issues ZAdd a second time
AllowAddRepeated(p, maxFaults) ==
    /\ call[p].pc = "zadd"
    /\ \E ok \in Outcomes(maxFaults) :
         /\ bucket' = IF ok
                      THEN [bucket EXCEPT ![Key(p)] =
                               ZAdd(@, FormatInt(call[p].now), F64(call[p].now))]
                      ELSE bucket
         /\ call' = [call EXCEPT ![p].zadd = Outcome(ok),
                                 ![p].pc = IF call[p].zadd = "none" THEN "zadd" ELSE "expire",
                                 ![p].queryFailure = @ \/ ~ok]
         /\ faults' = Fault(ok)
    /\ UNCHANGED <<clock, expireAt, counters, ncalls, admitted, limiter, ring, ctor>>

\* lines 250-257: record the request under its instant
AllowAdd(p, maxFaults) ==
    /\ call[p].pc = "zadd"
    /\ \E ok \in Outcomes(maxFaults) :
         /\ bucket' = IF ok
                      THEN [bucket EXCEPT ![Key(p)] =
                               ZAdd(@, FormatInt(call[p].now), F64(call[p].now))]
                      ELSE bucket
         /\ call' = [call EXCEPT ![p].zadd = Outcome(ok), ![p].pc = "expire",
                                 ![p].queryFailure = @ \/ ~ok]
         /\ faults' = Fault(ok)
    /\ UNCHANGED <<clock, expireAt, counters, ncalls, admitted, limiter, ring, ctor>>

\* a variant without the extra second
ExpireAfterWindow(g) == window(g)

\* the TTL Expire sets: c.window + time.Second
ExpireAfter(g) == window(g) + Second

\* a variant that counts the admission whatever Expire returned
AllowsIncrementAlways(ok) == 1

\* lines 263-269: swarm.redis.allows is counted unless Expire failed
AllowsIncrement(ok) == IF ok THEN 1 ELSE 0

\* lines 259-270: refresh the TTL (of a key that exists) and return true
AllowExpire(p, maxFaults) ==
    /\ call[p].pc = "expire"
    /\ \E ok \in Outcomes(maxFaults) :
         LET f == AllowReturn([call[p] EXCEPT !.expire = Outcome(ok),
                                   !.queryFailure = @ \/ ~ok,
                                   !.nAllows = @ + AllowsIncrement(ok)], TRUE)
         IN  /\ expireAt' = IF ok /\ bucket[Key(p)] # {}
                            THEN [expireAt EXCEPT ![Key(p)] = clock + ExpireAfter(f.g)]
                            ELSE expireAt
             /\ counters' = [counters EXCEPT ![redisMetricsPrefix \o "allows"] =
                                @ + AllowsIncrement(ok)]
             /\ call' = [call EXCEPT ![p] = f]
             /\ admitted' = Admit(f)
             /\ faults' = Fault(ok)
    /\ UNCHANGED <<clock, bucket, ncalls, limiter, ring, ctor>>

(***************************************************************************)
(* oldest, deltaFrom, Delta, Oldest, RetryAfterContext                     *)
(***************************************************************************)
ReadOps == {"RetryAfter", "Delta", "Oldest"}

\* how the member of the first entry reaches the client: as the decimal string
\* that was written, as a value that is no string, or as a string that is no
\* decimal integer
WireKinds == {"decimal", "notString", "notDecimal"}

\* RetryAfterContext line 403, Delta line 317: read the clock (from); Oldest
\* has no from
ReadStart(p, op, g, k, cap) ==
    /\ call[p].pc = "idle"
    /\ ncalls < cap
    /\ ncalls' = ncalls + 1
    /\ call' = [call EXCEPT ![p] =
                    [IdleFrame EXCEPT !.op = op, !.pc = "oldestNow", !.g = g,
                                      !.k = k, !.now = IF op = "Oldest" THEN 0 ELSE clock,
                                      !.hist = History(call[p])]]
    /\ UNCHANGED <<clock, bucket, expireAt, counters, admitted, faults, limiter, ring, ctor>>

\* oldest line 333: its own reading of the clock
OldestNow(p) ==
    /\ call[p].pc = "oldestNow"
    /\ call' = [call EXCEPT ![p].now2 = clock, ![p].pc = "oldestQuery"]
    /\ UNCHANGED <<clock, bucket, expireAt, counters, ncalls, admitted, faults, limiter, ring, ctor>>

\* a variant that does not check what the member is
oldestUnchecked(ok, zs, wire) ==
    IF ~ok THEN <<TRUE, ZeroTime>>
    ELSE IF Len(zs) = 0 THEN <<FALSE, ZeroTime>>
    ELSE <<FALSE, ParseInt(zs[1].member)>>

\* oldest lines 336-369 on the reply zs: <<failed, time>>
oldest(ok, zs, wire) ==
    IF ~ok THEN <<TRUE, ZeroTime>>
    ELSE IF Len(zs) = 0 THEN <<FALSE, ZeroTime>>
    ELSE IF wire # "decimal" THEN <<TRUE, ZeroTime>>
    ELSE <<FALSE, ParseInt(zs[1].member)>>

\* a variant that takes the gap from the oldest entry to from with the
\* operands exchanged
deltaFromSwapped(g, old, from) ==
    IF old[1] THEN <<TRUE, 0>>
    ELSE <<FALSE, Wrap(window(g) - TimeSub(old[2], from))>>

\* deltaFrom lines 304-312 on what oldest returned: <<failed, duration>>
deltaFrom(g, old, from) ==
    IF old[1] THEN <<TRUE, 0>>
    ELSE <<FALSE, Wrap(window(g) - TimeSub(from, old[2]))>>

\* Delta lines 316-328
Delta(g, old, from) == IF deltaFrom(g, old, from)[1] THEN 0 ELSE deltaFrom(g, old, from)[2]

\* Oldest lines 378-386
Oldest(old) == IF old[1] THEN ZeroTime ELSE old[2]

minWait == 1

\* a variant without the floor of minWait
RetryAfterUnclamped(g, old, from) ==
    IF deltaFrom(g, old, from)[1] THEN minWait
    ELSE Quot(deltaFrom(g, old, from)[2], Second) + 1

\* a variant that does not add the second
RetryAfterNoSlack(g, old, from) ==
    IF deltaFrom(g, old, from)[1] THEN minWait
    ELSE IF Quot(deltaFrom(g, old, from)[2], Second) > 0
           THEN Quot(deltaFrom(g, old, from)[2], Second)
    ELSE minWait

\* RetryAfterContext lines 407-419
RetryAfterContext(g, old, from) ==
    LET d   == deltaFrom(g, old, from)
        res == Quot(d[2], Second)
    IN  IF d[1] THEN minWait
        ELSE IF res > 0 THEN res + 1
        ELSE minWait

\* a variant whose round trip takes the bucket's entries away
OldestQueryPopping(p, maxFaults) ==
    /\ call[p].pc = "oldestQuery"
    /\ call' = [call EXCEPT ![p].pc = "idle", ![p].query = "ok"]
    /\ bucket' = [bucket EXCEPT ![Key(p)] = {}]
    /\ UNCHANGED <<clock, expireAt, counters, ncalls, admitted, faults, limiter, ring, ctor>>

\* the round trip of oldest and the rest of the call, which issues no other
OldestQuery(p, maxFaults) ==
    /\ call[p].pc = "oldestQuery"
    /\ \E ok \in Outcomes(maxFaults), wire \in WireKinds :
         LET f   == call[p]
             zs  == ZRangeByScoreFirst(bucket[Key(p)], 0, F64(f.now2))
             old == oldest(ok, zs, wire)
             ret == CASE f.op = "RetryAfter" -> RetryAfterContext(f.g, old, f.now)
                      [] f.op = "Delta" -> Delta(f.g, old, f.now)
                      [] OTHER -> Oldest(old)
             timed == f.op = "RetryAfter"
         IN  /\ (Len(zs) = 0 \/ ~ok) => wire = "decimal"
             /\ faults' = Fault(ok)
             /\ call' = [call EXCEPT ![p] =
                    [f EXCEPT !.pc = "idle", !.query = Outcome(ok),
                              !.oldest = IF Len(zs) = 0 \/ ~ok THEN "none" ELSE wire,
                              !.oldestAt = IF old[1] THEN 0 ELSE old[2],
                              !.queryFailure = timed /\ old[1],
                              !.retInt = ret,
                              !.label = IF timed THEN QueryLabel(old[1]) ELSE "none",
                              !.timer = IF timed
                                        THEN measureQuery("retryafter", f.g, old[1])
                                        ELSE "none",
                              !.nTimer = IF timed THEN 1 ELSE 0]]
    /\ UNCHANGED <<clock, bucket, expireAt, counters, ncalls, admitted, limiter, ring, ctor>>

(***************************************************************************)
(* newRing: the background worker of the ring                              *)
(***************************************************************************)
\* the shutdown signal is raised: the quit channel becomes ready
Quit ==
    /\ ~ring.quit
    /\ ring' = [ring EXCEPT !.quit = TRUE]
    /\ UNCHANGED <<clock, bucket, expireAt, call, counters, ncalls, admitted, faults,
                   limiter, ctor>>

\* lines 105-106: select takes the case of time.After(ro.ConnMetricsInterval)
\* and reads the pool stats
WorkerInterval ==
    /\ ring.worker = "select"
    /\ ring' = [ring EXCEPT !.worker = "stats"]
    /\ UNCHANGED <<clock, bucket, expireAt, call, counters, ncalls, admitted, faults,
                   limiter, ctor>>

\* lines 107-112: the six gauges are published, and the loop goes round
WorkerPublish ==
    /\ ring.worker = "stats"
    /\ ring' = [ring EXCEPT !.worker = "select",
                            !.published = IF @ < MaxPublishes THEN @ + 1 ELSE @]
    /\ UNCHANGED <<clock, bucket, expireAt, call, counters, ncalls, admitted, faults,
                   limiter, ctor>>

\* a variant that goes round the loop after closing the ring
WorkerQuitLooping ==
    /\ ring.worker = "select"
    /\ ring.quit
    /\ ring' = [ring EXCEPT !.closed = TRUE,
                            !.closes = IF @ < MaxPublishes THEN @ + 1 ELSE @]
    /\ UNCHANGED <<clock, bucket, expireAt, call, counters, ncalls, admitted, faults,
                   limiter, ctor>>

\* lines 113-115: select takes the case of quit: close the ring and return
WorkerQuit ==
    /\ ring.worker = "select"
    /\ ring.quit
    /\ ring' = [ring EXCEPT !.closed = TRUE, !.closes = @ + 1, !.worker = "done"]
    /\ UNCHANGED <<clock, bucket, expireAt, call, counters, ncalls, admitted, faults,
                   limiter, ctor>>

(***************************************************************************)
(* newClusterRateLimiterRedis                                              *)
(***************************************************************************)
\* lines 127-143: a nil ring handle returns nil at once; otherwise the struct
\* is built and backoff.Retry is entered
NewStart(rNil) ==
    /\ ctor.pc = "idle"
    /\ ctor' = IF rNil
                 THEN [ctor EXCEPT !.pc = "done", !.rNil = TRUE, !.made = FALSE]
                 ELSE [ctor EXCEPT !.pc = "ping"]
    /\ UNCHANGED <<clock, bucket, expireAt, call, counters, ncalls, admitted, faults,
                   limiter, ring>>

\* what backoff.Retry does with the result of one Ping: nil ends the retries
\* with a nil error (line 160 returns rl); an error ends them once maxRetries
\* retries were made (lines 154-157 return nil), and waits otherwise
AfterPing(c, ok, maxRetries) ==
    IF ok
      THEN [c EXCEPT !.pc = "done", !.tries = @ + 1, !.pinged = TRUE, !.made = TRUE]
      ELSE IF c.tries >= maxRetries
             THEN [c EXCEPT !.pc = "done", !.tries = @ + 1, !.made = FALSE]
             ELSE [c EXCEPT !.pc = "backoff", !.tries = @ + 1]

\* a variant that retries after a successful Ping as well
NewPingNoStop(ok) ==
    /\ ctor.pc = "ping"
    /\ ctor' = IF ctor.tries >= MaxRetries
                 THEN [ctor EXCEPT !.pc = "done", !.tries = @ + 1,
                                   !.pinged = @ \/ ok, !.made = ok]
                 ELSE [ctor EXCEPT !.pc = "backoff", !.tries = @ + 1,
                                   !.pinged = @ \/ ok]
    /\ UNCHANGED <<clock, bucket, expireAt, call, counters, ncalls, admitted, faults,
                   limiter, ring>>

\* lines 146-152: one Ping of the ring, which fails on a closed ring
NewPing(ok) ==
    /\ ctor.pc = "ping"
    /\ ok \in (IF ring.closed THEN {FALSE} ELSE BOOLEAN)
    /\ ctor' = AfterPing(ctor, ok, MaxRetries)
    /\ UNCHANGED <<clock, bucket, expireAt, call, counters, ncalls, admitted, faults,
                   limiter, ring>>

\* line 152: the wait between two attempts ends, or the exponential backoff
\* gives up because its maximal elapsed time has passed (lines 154-157)
NewBackoff(giveUp) ==
    /\ ctor.pc = "backoff"
    /\ ctor' = IF giveUp THEN [ctor EXCEPT !.pc = "done", !.made = FALSE]
                         ELSE [ctor EXCEPT !.pc = "ping"]
    /\ UNCHANGED <<clock, bucket, expireAt, call, counters, ncalls, admitted, faults,
                   limiter, ring>>

(***************************************************************************)
(* Close and Resize                                                        *)
(***************************************************************************)
\* a variant in which the limiter closes the ring it was given
CloseOwning(p, g) ==
    /\ call[p].pc = "idle"
    /\ call' = [call EXCEPT ![p] = [IdleFrame EXCEPT !.op = "Close", !.g = g]]
    /\ ring' = [ring EXCEPT !.closed = TRUE, !.closes = @ + 1]
    /\ UNCHANGED <<clock, bucket, expireAt, counters, ncalls, admitted, faults,
                   limiter, ctor>>

\* line 302: func (c *clusterLimitRedis) Close() {}
Close(p, g) ==
    /\ call[p].pc = "idle"
    /\ call' = [call EXCEPT ![p] = [IdleFrame EXCEPT !.op = "Close", !.g = g]]
    /\ UNCHANGED <<clock, bucket, expireAt, counters, ncalls, admitted, faults,
                   limiter, ring, ctor>>

\* the sizes Resize is called with
ResizeSizes == {0, MaxHitsGrouped + 1}

\* line 389: func (*clusterLimitRedis) Resize(string, int) {}
Resize(p, g, k, n) ==
    /\ call[p].pc = "idle"
    /\ call' = [call EXCEPT ![p] = [IdleFrame EXCEPT !.op = "Resize", !.g = g, !.k = k]]
    /\ UNCHANGED <<clock, bucket, expireAt, counters, ncalls, admitted, faults,
                   limiter, ring, ctor>>

(***************************************************************************)
(* Specifications                                                          *)
(***************************************************************************)
Targets == Groups \X ClientKeys

\* one step of an AllowContext call of caller p: it starts on a limiter and
\* client key of targets, or issues its next round trip
AllowStep(p, cap, targets, maxFaults) ==
    \/ \E t \in targets : AllowStart(p, t[1], t[2], cap)
    \/ AllowPrune(p, maxFaults)
    \/ AllowCard(p, maxFaults)
    \/ AllowAdd(p, maxFaults)
    \/ AllowExpire(p, maxFaults)

\* one step of a RetryAfterContext, Delta or Oldest call of caller p
ReadStep(p, cap, targets, ops, maxFaults) ==
    \/ \E op \in ops, t \in targets : ReadStart(p, op, t[1], t[2], cap)
    \/ OldestNow(p)
    \/ OldestQuery(p, maxFaults)

Step(p, cap, targets, ops, maxFaults) ==
    \/ AllowStep(p, cap, targets, maxFaults)
    \/ ReadStep(p, cap, targets, ops, maxFaults)

\* callers interleave between round trips
Next == Tick \/ \E p \in Procs : Step(p, MaxCalls, ConcTargets, ConcOps, MaxFaults)

Spec == Init /\ [][Next]_vars

\* one caller, whose calls do not overlap, on the two limiters of one client key
SeqNext == Tick \/ Step("p1", SeqMaxCalls, SeqTargets, SeqOps, SeqMaxFaults)

SeqSpec == Init /\ [][SeqNext]_vars

\* one caller, every operation on every limiter and client key, and calls in
\* which every round trip fails
WideNext == Tick \/ Step("p1", WideMaxCalls, Targets, ReadOps, WideMaxFaults)

WideSpec == Init /\ [][WideNext]_vars

\* every positive window a limiter can be given, and the reading operations on
\* the bucket nothing was admitted to
AnyWindowInit ==
    /\ InitState
    /\ \E w \in 1..MaxDuration :
         limiter = [g \in Groups |-> Settings(MaxHitsGrouped, w)]

AnyWindowNext == Tick \/ ReadStep("p1", 1, {<<"g", "a">>}, ReadOps, 1)

AnyWindowSpec == AnyWindowInit /\ [][AnyWindowNext]_vars

\* the round trips of a call of caller p that has started: each returns, with
\* a result or with an error
CallProgress(p, maxFaults) ==
    \/ AllowPrune(p, maxFaults)
    \/ AllowCard(p, maxFaults)
    \/ AllowAdd(p, maxFaults)
    \/ AllowExpire(p, maxFaults)

\* one caller of AllowContext whose round trips all return
ProtoNext == Tick \/ AllowStep("p1", MaxCalls, SeqTargets, WideMaxFaults)

ProtoLiveSpec ==
    Init /\ [][ProtoNext]_vars /\ WF_vars(CallProgress("p1", WideMaxFaults))

\* the callers race on AllowContext for one client key, and no round trip fails
RaceNext == Tick \/ \E p \in Procs : AllowStep(p, RaceMaxCalls, ConcTargets, 0)

RaceSpec == Init /\ [][RaceNext]_vars

\* the worker of the ring, the shutdown signal, and one caller of AllowContext
RingNext ==
    \/ Tick
    \/ Quit
    \/ WorkerInterval
    \/ WorkerPublish
    \/ WorkerQuit
    \/ AllowStep("p1", RingMaxCalls, SeqTargets, 0)

RingSpec == Init /\ [][RingNext]_vars

\* the worker goroutine is scheduled, and its select, which chooses at random
\* among the cases that are ready, does not pass over a ready quit for ever
RingLiveSpec ==
    RingSpec /\ WF_vars(WorkerPublish) /\ SF_vars(WorkerQuit)

\* one construction of a limiter, on a ring that the shutdown may close
NewNext ==
    \/ Tick
    \/ Quit
    \/ WorkerQuit
    \/ \E rNil \in BOOLEAN : NewStart(rNil)
    \/ \E ok \in BOOLEAN : NewPing(ok)
    \/ \E giveUp \in BOOLEAN : NewBackoff(giveUp)

\* the steps of the constructing goroutine
NewProgress ==
    \/ \E ok \in BOOLEAN : NewPing(ok)
    \/ \E giveUp \in BOOLEAN : NewBackoff(giveUp)

NewSpec == Init /\ [][NewNext]_vars

\* a Ping returns, with a result or with an error (the ring has dial, read,
\* write and pool timeouts), and a backoff wait is a finite sleep
NewLiveSpec == NewSpec /\ WF_vars(NewProgress)

\* one caller, whose calls do not overlap, and no round trip that fails
RetryNext == Tick \/ Step("p1", RetryMaxCalls, SeqTargets, SeqOps, 0)

RetrySpec == Init /\ [][RetryNext]_vars

\* one caller of AllowContext and, between its round trips, one caller of
\* RetryAfterContext, Delta and Oldest
ReadOnlyNext ==
    \/ Tick
    \/ AllowStep("p1", ReadOnlyMaxCalls, ReadOnlyTargets, MaxFaults)
    \/ ReadStep("p2", ReadOnlyMaxCalls, ReadOnlyTargets, ReadOps, MaxFaults)

ReadOnlySpec == Init /\ [][ReadOnlyNext]_vars

\* one caller that also calls Close and Resize between its other calls
NoopNext ==
    \/ Tick
    \/ Step("p1", MaxCalls, SeqTargets, SeqOps, MaxFaults)
    \/ \E g \in Groups : Close("p1", g)
    \/ \E g \in Groups, k \in ClientKeys, n \in ResizeSizes : Resize("p1", g, k, n)

NoopSpec == Init /\ [][NoopNext]_vars
(***************************************************************************)
(* Properties                                                              *)
(***************************************************************************)
\* the call of caller p has returned, and was a call of op
Finished(p, op) == call[p].pc = "idle" /\ call[p].op = op

\* the instants of the calls admitted on the key of a returned Allow call f
\* before f itself
Prior(f) ==
    IF f.retBool
    THEN admitted[RedisKey(f.g, f.k)] (-) SetToBag({f.now})
    ELSE admitted[RedisKey(f.g, f.k)]

\* how many of them fall within one window before f
PriorInWindow(f) ==
    LET B == Prior(f)
        S == {t \in BagToSet(B) : f.now - t < window(f.g)}
    IN  BagCardinality([t \in S |-> CopiesIn(t, B)])

\* the distinct instants among them whose float64 score lies above the
\* float64 of the instant one window before f
PriorScoresInWindow(f) ==
    Cardinality({t \in BagToSet(Prior(f)) : F64(t) > F64(f.now - window(f.g))})

C2_RetryAfterAtLeastOne ==
    \A p \in Procs : Finished(p, "RetryAfter") => call[p].retInt >= 1

\* a RetryAfter call returned more than the floor of one second
C2_Witness ==
    \E p \in Procs : Finished(p, "RetryAfter") /\ call[p].retInt >= 2

\* C3: an Allow call returns false only when its prune and its count both
\* succeeded and the count was maxHits or more; when its prune or its count
\* failed it returns true and its timer is recorded under the failure label
C3_FailOpen ==
    \A p \in Procs :
        Finished(p, "Allow") =>
            /\ ~call[p].retBool =>
                  /\ call[p].prune = "ok" /\ call[p].card = "ok"
                  /\ call[p].count >= maxHits(call[p].g)
            /\ (call[p].prune = "err" \/ call[p].card = "err") =>
                  /\ call[p].retBool
                  /\ call[p].nTimer = 1
                  /\ call[p].label = "failure"
                  /\ call[p].timer = measureQuery("allow", call[p].g, TRUE)

\* an Allow call all of whose round trips failed returned true under the
\* failure label
C3_Witness ==
    \E p \in Procs :
        /\ Finished(p, "Allow")
        /\ call[p].prune = "err" /\ call[p].zadd = "err" /\ call[p].expire = "err"
        /\ call[p].retBool /\ call[p].label = "failure"

\* C4: an Allow call made when every call admitted on its key before it lies
\* a window or more in the past returns true, whether or not round trips fail
C4_Recovery ==
    (Finished("p1", "Allow")
        /\ \A t \in BagToSet(Prior(call["p1"])) :
              call["p1"].now - t >= window(call["p1"].g))
    => call["p1"].retBool

\* a call was admitted by a limiter of one hit exactly one window after the
\* call admitted before it, with no round trip failed
C4_Witness ==
    /\ Finished("p1", "Allow") /\ faults = 0
    /\ maxHits(call["p1"].g) = 1
    /\ call["p1"].retBool
    /\ \E t \in BagToSet(Prior(call["p1"])) :
          call["p1"].now - t = window(call["p1"].g)

\* the entry an admitted call f writes: member the decimal of now, score the
\* float64 of now
Entry(f) == [member |-> FormatInt(f.now), score |-> F64(f.now)]

\* caller p takes the step in which its Allow call returns true with none of
\* its round trips failed
ReturnsAdmitted(p) ==
    /\ call[p].pc = "expire" /\ call'[p].pc = "idle"
    /\ call'[p].retBool /\ ~call'[p].queryFailure

\* C5 as stated (the score read as the float64 of now): when an Allow call
\* returns true with none of its round trips failed, its entry is in the
\* bucket and the key's TTL is window plus one second, under every
\* interleaving
C5_Original ==
    [][\A p \in Procs :
          ReturnsAdmitted(p) =>
              /\ Entry(call[p]) \in bucket'[Key(p)]
              /\ expireAt'[Key(p)] = clock' + window(call[p].g) + Second]_vars

\* C5 amended: a successful ZAdd of an Allow call leaves in the bucket the
\* entry whose member is the decimal of now and whose score is the float64 of
\* now; and when the call returns true with none of its round trips failed,
\* and that entry was still in the bucket when its Expire ran, the entry is in
\* the bucket and the key's TTL is window plus one second
C5_EntryAndTTL ==
    [][\A p \in Procs :
          /\ (call[p].pc = "zadd" /\ call'[p].zadd = "ok")
                => Entry(call[p]) \in bucket'[Key(p)]
          /\ (ReturnsAdmitted(p) /\ Entry(call[p]) \in bucket[Key(p)]) =>
                /\ Entry(call[p]) \in bucket'[Key(p)]
                /\ expireAt'[Key(p)] = clock' + window(call[p].g) + Second]_vars

\* an admitted call has just returned, its entry is in the bucket under a
\* score that differs from now, and the TTL is window plus one second
C5_Witness ==
    \E p \in Procs :
        /\ Finished(p, "Allow") /\ call[p].retBool /\ ~call[p].queryFailure
        /\ Entry(call[p]) \in bucket[Key(p)]
        /\ Entry(call[p]).score # call[p].now
        /\ expireAt[Key(p)] = clock + window(call[p].g) + Second

\* C6: a step of a call on group g and client key k changes neither the
\* bucket nor the TTL of any other pair of group and client key
C6_Separation ==
    [][\A p \in Procs :
          call'[p] # call[p] =>
              \A t \in Targets :
                  t # <<call'[p].g, call'[p].k>> =>
                      /\ bucket'[RedisKey(t[1], t[2])] = bucket[RedisKey(t[1], t[2])]
                      /\ expireAt'[RedisKey(t[1], t[2])] = expireAt[RedisKey(t[1], t[2])]]_vars

\* a call on client key "a" was admitted by the limiter without group while
\* the bucket of "a" under group "g" holds another admission
C6_Witness ==
    \E p \in Procs :
        /\ Finished(p, "Allow") /\ call[p].retBool
        /\ call[p].g = "" /\ call[p].k = "a"
        /\ bucket[RedisKey("g", "a")] # {}
        /\ bucket[RedisKey("", "a")] # {}
        /\ bucket[RedisKey("g", "a")] # bucket[RedisKey("", "a")]

\* floor((window - (from - o)) / 1s) + 1 when the floor is positive, else 1
SecondsToWait(g, from, o) ==
    IF (window(g) - (from - o)) \div Second > 0
    THEN ((window(g) - (from - o)) \div Second) + 1
    ELSE 1

\* C7: a RetryAfter call that read the oldest entry o of its bucket at from
\* returns floor((window - (from - o)) / 1s) + 1 when that floor is positive
\* and 1 otherwise
C7_RetryAfterValue ==
    \A p \in Procs :
        (Finished(p, "RetryAfter") /\ call[p].query = "ok" /\ call[p].oldest = "decimal")
        => call[p].retInt = SecondsToWait(call[p].g, call[p].now, call[p].oldestAt)

\* a RetryAfter call made after its oldest entry returned 2
C7_Witness ==
    \E p \in Procs :
        /\ Finished(p, "RetryAfter") /\ call[p].query = "ok"
        /\ call[p].oldest = "decimal"
        /\ call[p].oldestAt < call[p].now
        /\ call[p].retInt = 2

\* the call of caller p has returned and found its bucket empty
FoundEmpty(p) ==
    /\ call[p].pc = "idle" /\ call[p].op \in ReadOps
    /\ call[p].query = "ok" /\ call[p].oldest = "none"

\* C8 as stated: on an empty bucket Oldest returns the zero time, Delta
\* returns a negative duration for every positive window, RetryAfter returns 1
\* and records its timer under the success label
C8_Original ==
    \A p \in Procs :
        FoundEmpty(p) =>
            /\ call[p].op = "Oldest" => call[p].retInt = ZeroTime
            /\ call[p].op = "Delta" => call[p].retInt < 0
            /\ call[p].op = "RetryAfter" =>
                  call[p].retInt = 1 /\ call[p].label = "success"

\* C8 amended: on an empty bucket Oldest returns the zero time, Delta returns
\* window minus the largest duration, which is negative for every window
\* below the largest duration and 0 for that one, RetryAfter returns 1 and
\* records its timer under the success label
C8_EmptyBucket ==
    \A p \in Procs :
        FoundEmpty(p) =>
            /\ call[p].op = "Oldest" => call[p].retInt = ZeroTime
            /\ call[p].op = "Delta" =>
                  /\ call[p].retInt = window(call[p].g) - MaxDuration
                  /\ call[p].retInt <= 0
                  /\ call[p].retInt < 0 <=> window(call[p].g) < MaxDuration
            /\ call[p].op = "RetryAfter" =>
                  /\ call[p].retInt = 1 /\ call[p].label = "success"
                  /\ call[p].timer = measureQuery("retryafter", call[p].g, FALSE)

\* Delta found the bucket empty under a window of half the largest duration
\* or more and returned a negative duration
C8_Witness ==
    \E p \in Procs :
        /\ FoundEmpty(p) /\ call[p].op = "Delta"
        /\ 2 * window(call[p].g) > MaxDuration
        /\ call[p].retInt < 0

\* the lookup of the oldest entry of the call of caller p failed: the round
\* trip failed, or the member was not a string or not a decimal
LookupFailed(p) ==
    /\ call[p].pc = "idle" /\ call[p].op \in ReadOps
    /\ call[p].query = "err" \/ call[p].oldest \in {"notString", "notDecimal"}

\* C9: when the lookup of the oldest entry fails, RetryAfter returns 1 and
\* records its timer under the failure label, Oldest returns the zero time
\* and Delta returns 0
C9_LookupFailure ==
    \A p \in Procs :
        LookupFailed(p) =>
            /\ call[p].op = "RetryAfter" =>
                  /\ call[p].retInt = 1 /\ call[p].label = "failure"
                  /\ call[p].nTimer = 1
                  /\ call[p].timer = measureQuery("retryafter", call[p].g, TRUE)
            /\ call[p].op = "Oldest" => call[p].retInt = ZeroTime
            /\ call[p].op = "Delta" => call[p].retInt = 0

\* RetryAfter read a member that is not a decimal from a bucket that holds an
\* entry
C9_Witness ==
    \E p \in Procs :
        /\ LookupFailed(p) /\ call[p].op = "RetryAfter"
        /\ call[p].oldest = "notDecimal"
        /\ bucket[Key(p)] # {}
        /\ call[p].retInt = 1

\* by how much a step raises the counter of name n
Raised(n) == counters'[redisMetricsPrefix \o n] - counters[redisMetricsPrefix \o n]

\* C10: the step in which an Allow call starts raises swarm.redis.total by
\* one and nothing else; the step in which it returns raises
\* swarm.redis.forbids by one iff it returns false and swarm.redis.allows by
\* one iff it returns true and its Expire succeeded; no other step raises a
\* counter; and forbids + allows never exceeds total
C10_Counters ==
    [][/\ \A p \in Procs :
            call'[p] # call[p] =>
               /\ Raised("total") =
                     (IF call[p].pc = "idle" /\ call'[p].op = "Allow" THEN 1 ELSE 0)
               /\ Raised("forbids") =
                     (IF call[p].op = "Allow" /\ call[p].pc # "idle"
                         /\ call'[p].pc = "idle" /\ ~call'[p].retBool THEN 1 ELSE 0)
               /\ Raised("allows") =
                     (IF call[p].op = "Allow" /\ call[p].pc # "idle"
                         /\ call'[p].pc = "idle" /\ call'[p].retBool
                         /\ call'[p].expire = "ok" THEN 1 ELSE 0)
               /\ call'[p].nTotal = (IF call'[p].op = "Allow" THEN 1 ELSE 0)
               /\ call'[p].nAllows + call'[p].nForbids <= 1
       /\ call' = call => counters' = counters
       /\ counters'[redisMetricsPrefix \o "forbids"]
             + counters'[redisMetricsPrefix \o "allows"]
             <= counters'[redisMetricsPrefix \o "total"]]_vars

\* an Allow call whose Expire failed returned true and was counted in total
\* only
C10_Witness ==
    \E p \in Procs :
        /\ Finished(p, "Allow") /\ call[p].retBool /\ call[p].expire = "err"
        /\ call[p].nTotal = 1 /\ call[p].nAllows = 0 /\ call[p].nForbids = 0
        /\ counters[redisMetricsPrefix \o "forbids"]
              + counters[redisMetricsPrefix \o "allows"]
              < counters[redisMetricsPrefix \o "total"]
\* some round trip of the Allow call in frame f returned an error
SomeOpFailed(f) == "err" \in {f.prune, f.card, f.zadd, f.expire}

\* C11: an Allow call that has returned has emitted exactly one timer; its
\* label is failure iff a round trip of the call returned an error, else
\* success; its name is swarm.redis.query.allow.<label>, followed by .<group>
\* iff the group is not empty; a denied call is labelled success
C11_TimerLabel ==
    \A p \in Procs :
        Finished(p, "Allow") =>
            /\ call[p].nTimer = 1
            /\ call[p].label = (IF SomeOpFailed(call[p]) THEN "failure" ELSE "success")
            /\ call[p].timer = "swarm.redis.query.allow." \o call[p].label
                                  \o (IF call[p].g = "" THEN "" ELSE "." \o call[p].g)
            /\ ~call[p].retBool => call[p].label = "success"

\* a call of the limiter of group "g" whose only failed round trip was the
\* ZAdd has emitted the failure timer with the group in its name
C11_Witness ==
    \E p \in Procs :
        /\ Finished(p, "Allow") /\ call[p].g = "g"
        /\ call[p].prune = "ok" /\ call[p].card = "ok"
        /\ call[p].zadd = "err" /\ call[p].expire = "ok"
        /\ call[p].timer = "swarm.redis.query.allow.failure.g"
\* C12: a call of Close or of Resize, made any number of times between the
\* other calls, changes no bucket, no TTL, no limiter configuration, no
\* counter, emits no timer and leaves the ring as it is: all it leaves behind
\* is the caller's own returned frame, which the next call does not read
C12_NoOps ==
    [][\A p \in Procs :
          (call'[p] # call[p] /\ call'[p].op \in {"Close", "Resize"}) =>
              /\ UNCHANGED <<clock, bucket, expireAt, counters, ncalls, admitted,
                             faults, limiter, ring, ctor>>
              /\ call'[p].pc = "idle"
              /\ call'[p].nTimer = 0 /\ call'[p].timer = "none"
              /\ call'[p].nTotal = 0 /\ call'[p].nAllows = 0 /\ call'[p].nForbids = 0
              /\ \A q \in Procs \ {p} : call'[q] = call[q]]_vars

\* Close has returned after the calls of the run, on a bucket that holds an
\* entry and a ring that is open
C12_Witness ==
    /\ Finished("p1", "Close")
    /\ ncalls = MaxCalls
    /\ \E key \in RedisKeys : bucket[key] # {} /\ expireAt[key] # NoTTL
    /\ counters[redisMetricsPrefix \o "total"] > 0
    /\ ~ring.closed
\* the entries of a bucket whose score is strictly below now - window of the
\* Allow call in frame f
Stale(f, set) == {e \in set : e.score < f.now - window(f.g)}

\* caller p takes the step in which its Allow call, whose prune succeeded,
\* returns
ReturnsPruned(p) ==
    /\ call[p].op = "Allow" /\ call[p].pc # "idle" /\ call'[p].pc = "idle"
    /\ call'[p].prune = "ok"

ProtocolStep(p) ==
    LET f == call[p]
        n == call'[p]
    IN  (n # f /\ n.op = "Allow") =>
          \/ /\ f.pc = "idle" /\ n.pc = "prune"
             /\ n.prune = "none" /\ n.card = "none" /\ n.zadd = "none" /\ n.expire = "none"
          \/ /\ f.pc = "prune" /\ f.prune = "none" /\ n.prune = "ok" /\ n.pc = "card"
             /\ n.card = "none" /\ n.zadd = "none" /\ n.expire = "none"
          \/ /\ f.pc = "prune" /\ f.prune = "none" /\ n.prune = "err" /\ n.pc = "zadd"
             /\ n.card = "none" /\ n.zadd = "none" /\ n.expire = "none"
          \/ /\ f.pc = "card" /\ f.card = "none" /\ n.card = "ok" /\ n.pc = "idle"
             /\ ~n.retBool /\ n.prune = "ok" /\ n.zadd = "none" /\ n.expire = "none"
          \/ /\ f.pc = "card" /\ f.card = "none" /\ n.card \in {"ok", "err"} /\ n.pc = "zadd"
             /\ n.prune = "ok" /\ n.zadd = "none" /\ n.expire = "none"
          \/ /\ f.pc = "zadd" /\ f.zadd = "none" /\ n.zadd \in {"ok", "err"} /\ n.pc = "expire"
             /\ n.prune = f.prune /\ n.card = f.card /\ n.expire = "none"
          \/ /\ f.pc = "expire" /\ f.expire = "none" /\ n.expire \in {"ok", "err"}
             /\ n.pc = "idle" /\ n.retBool
             /\ n.prune = f.prune /\ n.card = f.card /\ n.zadd = f.zadd

C15_BoundedOverAdmission ==
    \A t \in ConcTargets :
        Cardinality(bucket[RedisKey(t[1], t[2])])
            <= maxHits(t[1]) + Cardinality(Procs) - 1

\* two callers raced on the limiter of one hit: both were admitted and the
\* bucket holds maxHits + N - 1 = 2 entries
C15_Witness ==
    /\ faults = 0
    /\ \A p \in Procs : Finished(p, "Allow") /\ call[p].g = "" /\ call[p].retBool
    /\ Cardinality(bucket[RedisKey("", "a")]) = maxHits("") + Cardinality(Procs) - 1
    /\ Cardinality(bucket[RedisKey("", "a")]) > maxHits("")
\* no Allow call on the group and client key t is under way
Quiet(t) ==
    \A p \in Procs : call[p].pc = "idle" \/ <<call[p].g, call[p].k>> # t

\* C16: whenever no call is under way on it, a bucket that holds an entry
\* carries a TTL, of window + 1s at most, so that it is destroyed once it has
\* been idle for longer than that, also after calls in which a round trip
\* failed
C16_SelfEviction ==
    \A t \in Targets :
        (Quiet(t) /\ bucket[RedisKey(t[1], t[2])] # {}) =>
            /\ expireAt[RedisKey(t[1], t[2])] # NoTTL
            /\ expireAt[RedisKey(t[1], t[2])] <= clock + window(t[1]) + Second
\* the step is a pruning pass (a ZRemRangeByScore round trip) on key
PruneOf(key) ==
    \E p \in Procs : call[p].pc = "prune" /\ call'[p].pc # "prune" /\ Key(p) = key

\* C17 as stated: in every step that is not a pruning pass on the key, the
\* cardinality of the bucket does not decrease
C17_Original ==
    [][\A key \in RedisKeys :
          ~PruneOf(key) => Cardinality(bucket'[key]) >= Cardinality(bucket[key])]_vars

\* C17 amended: a step that is not a pruning pass on the key leaves the bucket
\* as it is, or adds the entry of a call that issues its ZAdd on that key, or
\* is the expiry of the key's TTL, which destroys the whole bucket
C17_OnlyZAddOrExpiry ==
    [][\A key \in RedisKeys :
          ~PruneOf(key) =>
              \/ /\ bucket[key] \subseteq bucket'[key]
                 /\ bucket'[key] \ bucket[key] \subseteq
                       {[member |-> FormatInt(call[p].now), score |-> F64(call[p].now)] :
                           p \in {q \in Procs : call[q].pc = "zadd" /\ call'[q].zadd = "ok"
                                                  /\ Key(q) = key}}
              \/ /\ bucket[key] # {} /\ bucket'[key] = {}
                 /\ clock' = clock + 1
                 /\ expireAt[key] # NoTTL /\ expireAt[key] <= clock'
                 /\ expireAt'[key] = NoTTL]_vars

\* a ZAdd has just added a second entry to a bucket that has not been pruned
\* since
C17_Witness ==
    \E p \in Procs :
        /\ call[p].op = "Allow" /\ call[p].pc = "expire" /\ call[p].zadd = "ok"
        /\ Cardinality(bucket[Key(p)]) = 2
        /\ [member |-> FormatInt(call[p].now), score |-> F64(call[p].now)] \in bucket[Key(p)]
\* the ring is closed only by the worker at its select, only once the
\* shutdown signal is raised, and once; the worker then has returned; and the
\* worker publishes no gauges on a closed ring
ShutdownStep ==
    /\ ring'.closed # ring.closed =>
          /\ ring'.closed /\ ring.quit
          /\ ring.worker = "select" /\ ring'.worker = "done"
    /\ ring'.closes # ring.closes => ~ring.closed /\ ring'.closes = 1
    /\ ring.worker = "done" => ring'.worker = "done"
    /\ (ring.worker = "stats" /\ ring'.worker # "stats") => ~ring.closed /\ ~ring'.closed
    /\ ring'.published # ring.published => ~ring'.closed

\* C18: once the shutdown signal is raised, the worker eventually closes the
\* ring and returns; the ring is closed only by the worker, only after the
\* signal, at most once, and no pool gauge is published after the ring has
\* been closed
C18_Shutdown ==
    /\ [][ShutdownStep]_vars
    /\ ring.quit ~> (ring.closed /\ ring.worker = "done")

\* the worker has published gauges, then closed the ring on the signal and
\* returned, and an Allow call made on the closed ring failed open
C18_Witness ==
    /\ ring.quit /\ ring.closed /\ ring.worker = "done" /\ ring.closes = 1
    /\ ring.published >= 1
    /\ Finished("p1", "Allow") /\ call["p1"].retBool
    /\ call["p1"].prune = "err" /\ call["p1"].expire = "err"
\* a step of the construction: a Ping is tried only while no Ping succeeded
\* and fewer than MaxRetries + 1 were tried; the first success ends the
\* construction with a limiter; a result once returned stays
ConstructionStep ==
    /\ ctor'.tries # ctor.tries =>
          /\ ctor'.tries = ctor.tries + 1
          /\ ~ctor.pinged /\ ~ctor.rNil
          /\ ctor.tries <= MaxRetries
    /\ (ctor'.pinged /\ ~ctor.pinged) => ctor'.pc = "done" /\ ctor'.made
    /\ ctor.pc = "done" => ctor' = ctor

\* C19: construction tries Ping at most MaxRetries + 1 = 8 times, stops at
\* the first success and returns a limiter; it returns nil exactly when the
\* ring handle is nil or every attempt failed; and it always terminates
C19_Construction ==
    /\ [][ConstructionStep]_vars
    /\ [](ctor.tries <= MaxRetries + 1)
    /\ [](ctor.pc = "done" => (~ctor.made <=> (ctor.rNil \/ ~ctor.pinged)))
    /\ [](ctor.rNil => ctor.tries = 0)
    /\ (ctor.pc # "idle") ~> (ctor.pc = "done")

\* the eighth Ping, after seven failed ones, succeeded and a limiter was returned
C19_Witness ==
    /\ ctor.pc = "done" /\ ctor.made /\ ~ctor.rNil
    /\ ctor.tries = MaxRetries + 1
\* C20: in a run of one caller in which no round trip fails, when Allow
\* returned false at an instant t, RetryAfter called at t returned r, and the
\* caller's next call on that key is an Allow at t + r seconds or later, that
\* Allow returns true
C20_RetryAfterSuffices ==
    (/\ Finished("p1", "Allow")
     /\ faults = 0
     /\ call["p1"].hist[<<call["p1"].g, call["p1"].k>>].stage = "retry"
     /\ call["p1"].now >= call["p1"].hist[<<call["p1"].g, call["p1"].k>>].at)
    => call["p1"].retBool

\* an Allow of the limiter of group "g" made exactly r seconds after the
\* denial was admitted, the prune having left one younger entry in the bucket
C20_Witness ==
    /\ Finished("p1", "Allow") /\ call["p1"].retBool /\ faults = 0
    /\ call["p1"].hist[<<call["p1"].g, call["p1"].k>>].stage = "retry"
    /\ call["p1"].now = call["p1"].hist[<<call["p1"].g, call["p1"].k>>].at
    /\ call["p1"].g = "g"
    /\ call["p1"].count = MaxHitsGrouped - 1
\* caller p takes a step of a RetryAfter, Delta or Oldest call
ReadStepOf(p) == call'[p] # call[p] /\ call'[p].op \in ReadOps

\* C21: a step of a RetryAfter, Delta or Oldest call leaves every bucket, every
\* TTL, the counters and all that an Allow call reads (the clock, the buckets,
\* the TTLs, the limiters' settings, the ring, the frames of the other callers)
\* as they were; and such a call, once returned, has issued the one range
\* query and no prune, count, add or expire
C21_ReadOnly ==
    /\ [][\A p \in Procs :
            ReadStepOf(p) =>
                /\ bucket' = bucket /\ expireAt' = expireAt
                /\ clock' = clock /\ limiter' = limiter /\ ring' = ring
                /\ counters' = counters /\ admitted' = admitted
                /\ \A q \in Procs \ {p} : call'[q] = call[q]]_vars
    /\ [](\A p \in Procs :
            (call[p].pc = "idle" /\ call[p].op \in ReadOps) =>
                /\ call[p].query # "none"
                /\ call[p].prune = "none" /\ call[p].card = "none"
                /\ call[p].zadd = "none" /\ call[p].expire = "none")

\* a Delta call looked up the oldest entry of a bucket between the round trips
\* of an Allow call on the same key, and the bucket and its TTL are there
C21_Witness ==
    /\ Finished("p2", "Delta") /\ call["p2"].query = "ok" /\ call["p2"].oldest = "decimal"
    /\ call["p1"].op = "Allow" /\ call["p1"].pc = "zadd"
    /\ Key("p1") = Key("p2")
    /\ bucket[Key("p2")] # {} /\ expireAt[Key("p2")] # NoTTL
\* C22: a RetryAfter call never returns more than floor(window / 1s) + 1,
\* under every interleaving with Allow calls on the same key
C22_UpperBound ==
    \A p \in Procs :
        Finished(p, "RetryAfter") =>
            call[p].retInt <= (window(call[p].g) \div Second) + 1
====
